---- MODULE Spec2Model ----
(***************************************************************************)
(* nipy.algorithms.statistics.formula.formulae: the Formula algebra and    *)
(* the design-matrix pipeline.                                             *)
(*                                                                         *)
(* Symbolic expressions (sympy) are modelled as polynomials with integer   *)
(* coefficients over atoms.  An atom is a record [cls, name, level, idx]:  *)
(*   Term x            [cls "Term",       name "x"]                        *)
(*   FactorTerm f_a    [cls "FactorTerm", name "f", level "a"]             *)
(*   Symbol theta      [cls "Symbol",     name "th"]                       *)
(*   Symbol __t5__     [cls "Symbol",     name "__t", idx 5]               *)
(*   Dummy  __p5__     [cls "Dummy",      name "__p", idx 5]               *)
(*   Beta   b10        [cls "Beta",       name "b",  idx 10]               *)
(* A monomial is the sorted sequence of its atoms (x*x*y = <<x, x, y>>,    *)
(* the number 1 = <<>>); an expression is the set of its [c, m] summands   *)
(* with pairwise different monomials m and coefficients c # 0.             *)
(***************************************************************************)
EXTENDS Integers, Sequences, FiniteSets, TLC

VARIABLES
  A,      \* a Formula object: the receiver of the operations
  B,      \* the other operand
  input,  \* the record array of observations handed to design
  param,  \* the parameter record handed to design, or None
  ret     \* what the last operation returned or raised

vars == <<A, B, input, param, ret>>

-----------------------------------------------------------------------------
(* Bounds of the model.                                                    *)

MaxLenA == 2

MaxLenB == 2

MaxWide == 11

MaxTermsD == 1

MaxRows == 2

(* The longest levels argument of a Factor. *)
MaxLevels == 2

(* The longest term sequence of a Formula whose coefficients are followed. *)
MaxLenC == 3

(* The largest number of rows or columns of a matrix handed to
   contrast_from_cols_or_rows. *)
MaxDim == 2

-----------------------------------------------------------------------------
(* Atoms.                                                                  *)

Term(n) == [cls |-> "Term", name |-> n, level |-> "", idx |-> 0]

FactorTerm(n, l) == [cls |-> "FactorTerm", name |-> n, level |-> l, idx |-> 0]

Symbol(n, i) == [cls |-> "Symbol", name |-> n, level |-> "", idx |-> i]

Dummy(n, i) == [cls |-> "Dummy", name |-> n, level |-> "", idx |-> i]

Beta(char, i) == [cls |-> "Beta", name |-> char, level |-> "", idx |-> i]

(* Python's order of the strings used as names and levels. *)
NamesSorted ==
  <<"", "1", "2", "__p", "__t", "a", "b", "c", "e", "f", "factor", "g", "th", "w", "x", "y", "z">>

NameRank(s) == CHOOSE i \in 1..Len(NamesSorted) : NamesSorted[i] = s

(* sympy's Atom.class_key is (2, 0, cls.__name__): the rank of the class name. *)
ClassRank(c) ==
  CASE c = "Beta" -> 0
    [] c = "Dummy" -> 1
    [] c = "FactorTerm" -> 2
    [] c = "Symbol" -> 3
    [] c = "Term" -> 4

(* "%d" % n as the sequence of its decimal digits, most significant first. *)
RECURSIVE Digits(_)
Digits(n) == IF n < 10 THEN <<n>> ELSE Append(Digits(n \div 10), n % 10)

(* Lexicographic order of sequences of integers, as Python compares strings
   and tuples: a proper prefix is smaller. *)
RECURSIVE LexLess(_, _)
LexLess(s, t) ==
  IF t = <<>> THEN FALSE
  ELSE IF s = <<>> THEN TRUE
  ELSE IF Head(s) # Head(t) THEN Head(s) < Head(t)
  ELSE LexLess(Tail(s), Tail(t))

(* The characters of an atom's name after its class: the name, then the level
   of a FactorTerm ("f_a") or the digits of a numbered symbol ("b10"). *)
AtomNameKey(a) ==
  IF a.cls = "FactorTerm" THEN <<NameRank(a.name), NameRank(a.level)>>
  ELSE IF a.cls \in {"Beta", "Dummy"} \/ a.name \in {"__t", "__p"}
       THEN <<NameRank(a.name)>> \o Digits(a.idx)
  ELSE <<NameRank(a.name)>>

(* default_sort_key of an atom: (class_key, name). *)
AtomKey(a) == <<ClassRank(a.cls)>> \o AtomNameKey(a)

AtomLess(a, b) == LexLess(AtomKey(a), AtomKey(b))

(* sorted(S, key=default_sort_key) for a set of atoms. *)
RECURSIVE SortAtoms(_)
SortAtoms(S) ==
  IF S = {} THEN <<>>
  ELSE LET a == CHOOSE x \in S : \A y \in S \ {x} : AtomLess(x, y)
       IN <<a>> \o SortAtoms(S \ {a})

-----------------------------------------------------------------------------
(* Monomials: sorted sequences of atoms.                                   *)

RECURSIVE MonoInsert(_, _)
MonoInsert(a, m) ==
  IF m = <<>> THEN <<a>>
  ELSE IF AtomLess(Head(m), a) THEN <<Head(m)>> \o MonoInsert(a, Tail(m))
  ELSE <<a>> \o m

RECURSIVE MonoMul(_, _)
MonoMul(m1, m2) ==
  IF m1 = <<>> THEN m2 ELSE MonoMul(Tail(m1), MonoInsert(Head(m1), m2))

MonoCount(m, a) == Cardinality({i \in 1..Len(m) : m[i] = a})

MonoAtoms(m) == {m[i] : i \in 1..Len(m)}

RECURSIVE MonoRemoveOne(_, _)
MonoRemoveOne(m, a) ==
  IF m = <<>> THEN <<>>
  ELSE IF Head(m) = a THEN Tail(m)
  ELSE <<Head(m)>> \o MonoRemoveOne(Tail(m), a)

RECURSIVE MonoSubs(_, _, _)
MonoSubs(m, old, new) ==
  IF m = <<>> THEN <<>>
  ELSE MonoInsert(IF Head(m) = old THEN new ELSE Head(m),
                  MonoSubs(Tail(m), old, new))

-----------------------------------------------------------------------------
(* Expressions: sets of [c, m] summands.                                   *)

RECURSIVE SumC(_)
SumC(S) ==
  IF S = {} THEN 0
  ELSE LET t == CHOOSE x \in S : TRUE IN t.c + SumC(S \ {t})

(* Collect like monomials of a set of tagged summands [c, m, src]. *)
Collect(S) ==
  LET ms == {t.m : t \in S}
      all == {[c |-> SumC({t \in S : t.m = m}), m |-> m] : m \in ms}
  IN {t \in all : t.c # 0}

PNum(n) == IF n = 0 THEN {} ELSE {[c |-> n, m |-> <<>>]}

PAtom(a) == {[c |-> 1, m |-> <<a>>]}

PAdd(p, q) ==
  Collect({[c |-> t.c, m |-> t.m, src |-> 1] : t \in p}
          \cup {[c |-> t.c, m |-> t.m, src |-> 2] : t \in q})

PMul(p, q) ==
  Collect({[c |-> t.c * u.c, m |-> MonoMul(t.m, u.m), src |-> <<t.m, u.m>>] :
             t \in p, u \in q})

(* sympy.diff(p, a) for an atom a. *)
PDiff(p, a) ==
  Collect({[c |-> t.c * MonoCount(t.m, a), m |-> MonoRemoveOne(t.m, a), src |-> t.m] :
             t \in {u \in p : MonoCount(u.m, a) > 0}})

(* p.subs(old, new) for atoms old and new. *)
PSubs(p, old, new) ==
  Collect({[c |-> t.c, m |-> MonoSubs(t.m, old, new), src |-> t.m] : t \in p})

(* p.atoms(), without the numbers. *)
PAtoms(p) == UNION {MonoAtoms(t.m) : t \in p}

One == PNum(1)

-----------------------------------------------------------------------------
(* default_sort_key of an expression (sympy Expr.sort_key): the class key,
   the arguments, the exponent, the coefficient.  Numbers come first, then
   atoms and powers of one atom, then products, then sums.                 *)

(* An atom's key at a fixed width, so that keys can be concatenated. *)
PadKey(k) == k \o [i \in 1..(6 - Len(k)) |-> 0 - 1]

(* The distinct atoms of a monomial, in order (as_ordered_factors). *)
MonoFactors(m) == SortAtoms(MonoAtoms(m))

RECURSIVE FactorKeys(_, _)
FactorKeys(fs, m) ==
  IF fs = <<>> THEN <<>>
  ELSE PadKey(AtomKey(Head(fs))) \o <<MonoCount(m, Head(fs))>> \o FactorKeys(Tail(fs), m)

SummandKey(t) ==
  LET fs == MonoFactors(t.m)
  IN IF Len(fs) = 0 THEN <<1, 0, t.c>>
     ELSE IF Len(fs) = 1 THEN <<2>> \o FactorKeys(fs, t.m) \o <<t.c>>
     ELSE <<3, 0, Len(fs)>> \o FactorKeys(fs, t.m) \o <<t.c>>

RECURSIVE SortKeys(_)
SortKeys(K) ==
  IF K = {} THEN <<>>
  ELSE LET k == CHOOSE x \in K : \A y \in K \ {x} : LexLess(x, y)
       IN k \o SortKeys(K \ {k})

ExprKey(p) ==
  IF Cardinality(p) = 1 THEN SummandKey(CHOOSE t \in p : TRUE)
  ELSE <<3, 1, Cardinality(p)>> \o SortKeys({SummandKey(t) : t \in p})

ExprLess(p, q) == LexLess(ExprKey(p), ExprKey(q))

(* sorted(S, key=default_sort_key) for a set of expressions. *)
RECURSIVE SortExprs(_)
SortExprs(S) ==
  IF S = {} THEN <<>>
  ELSE LET e == CHOOSE x \in S : \A y \in S : ~ExprLess(y, x)
       IN <<e>> \o SortExprs(S \ {e})

SeqToSet(s) == {s[i] : i \in 1..Len(s)}

-----------------------------------------------------------------------------
(* The capability flags and the operators of Term and FactorTerm.          *)

IsAtomExpr(e) == Cardinality(e) = 1 /\ \A t \in e : t.c = 1 /\ Len(t.m) = 1

AtomOf(e) == (CHOOSE t \in e : TRUE).m[1]

is_term(e) == IsAtomExpr(e) /\ AtomOf(e).cls \in {"Term", "FactorTerm"}

is_factor_term_atom(a) == a.cls = "FactorTerm"

is_term_atom(a) == a.cls \in {"Term", "FactorTerm"}

is_symbol_atom(a) == a.cls \in {"Term", "FactorTerm", "Symbol", "Dummy", "Beta"}

is_formula(obj) == obj.cls \in {"Formula", "Factor", "RandomEffects"}

is_factor(obj) == obj.cls = "Factor"

Term_add_always_sum(self, other) == PAdd(self, other)

(* Term.__add__ *)
Term_add(self, other) == IF self = other THEN self ELSE PAdd(self, other)

FactorTerm_mul_always_product(self, other) == PMul(self, other)

(* FactorTerm.__mul__ *)
FactorTerm_mul(self, other) == IF self = other THEN self ELSE PMul(self, other)

(* Term.__mul__: Term defines no __mul__, so this is sympy's Expr.__mul__. *)
Term_mul(self, other) == PMul(self, other)

(* a * b as Python dispatches it on the class of a. *)
Expr_mul(a, b) ==
  IF IsAtomExpr(a) /\ AtomOf(a).cls = "FactorTerm" THEN FactorTerm_mul(a, b)
  ELSE PMul(a, b)

-----------------------------------------------------------------------------
(* getparams, getterms.                                                    *)

RECURSIVE AtomsOfSeq(_)
AtomsOfSeq(es) ==
  IF es = <<>> THEN {} ELSE PAtoms(Head(es)) \cup AtomsOfSeq(Tail(es))

(* getparams(expression), for a list of expressions. *)
getparams(es) ==
  SortAtoms({a \in AtomsOfSeq(es) : is_symbol_atom(a) /\ ~is_term_atom(a)})

(* getterms(expression), for a list of expressions. *)
getterms(es) == SortAtoms({a \in AtomsOfSeq(es) : is_term_atom(a)})

-----------------------------------------------------------------------------
(* Formula objects.                                                        *)

(* The attributes _setup_design sets, before it has run. *)
NoCache == [random_offset |-> 0, f_args |-> <<>>, f_body |-> <<>>,
            param |-> <<>>, term |-> <<>>, preterm |-> {}, terms |-> <<>>]

(* Formula.__init__ *)
Formula(seq, char) ==
  [cls |-> "Formula", terms |-> seq, counter |-> 0, char |-> char,
   has_coefs |-> FALSE, coefs |-> {},
   name |-> "", levels |-> <<>>,
   has_setup |-> FALSE, setup |-> NoCache]

(* An object that is no Formula: a bare sympy expression. *)
BareExpr(e) == [Formula(<<e>>, "") EXCEPT !.cls = "Expr"]

(* setdefault over the terms: the coefficient of a term is minted at its
   first occurrence, and the counter advances at every position. *)
RECURSIVE CoefLoop(_, _, _, _)
CoefLoop(ts, char, counter, coefs) ==
  IF ts = <<>> THEN [coefs |-> coefs, counter |-> counter]
  ELSE CoefLoop(Tail(ts), char, counter + 1,
                IF \E c \in coefs : c.term = Head(ts) THEN coefs
                ELSE coefs \cup {[term |-> Head(ts), coef |-> Beta(char, counter)]})

getcoefs_recomputed(self) ==
  LET r == CoefLoop(self.terms, self.char, self.counter, {})
  IN [self EXCEPT !.has_coefs = TRUE, !.coefs = r.coefs, !.counter = r.counter]

(* Formula._getcoefs: the object after the call. *)
getcoefs(self) ==
  IF self.has_coefs THEN self
  ELSE LET r == CoefLoop(self.terms, self.char, self.counter, {})
       IN [self EXCEPT !.has_coefs = TRUE, !.coefs = r.coefs, !.counter = r.counter]

CoefOf(self, term) == (CHOOSE c \in self.coefs : c.term = term).coef

RECURSIVE SumProducts(_, _)
SumProducts(self, ts) ==
  IF ts = <<>> THEN PNum(0)
  ELSE PAdd(PMul(PAtom(CoefOf(self, Head(ts))), Head(ts)), SumProducts(self, Tail(ts)))

(* Formula._getmean: np.sum(np.array(b) * self.terms), on an object whose
   coefficients are set. *)
getmean(self) == SumProducts(self, self.terms)

(* Formula._getdiff, on an object whose coefficients are set. *)
getdiff(self) ==
  LET mean == getmean(self)
      params == getparams(<<mean>>)
  IN [j \in 1..Len(params) |-> PDiff(mean, params[j])]

-----------------------------------------------------------------------------
(* The Formula algebra.  A result is [raised, same, obj]: the exception
   raised if any, whether the returned object is self, and the object.     *)

Raise(e) == [raised |-> e, same |-> FALSE, obj |-> Formula(<<>>, "")]

Return(obj) == [raised |-> "", same |-> FALSE, obj |-> obj]

ReturnSelf(self) == [raised |-> "", same |-> TRUE, obj |-> self]

Formula_eq_as_sets(self, other) ==
  is_formula(other) /\ SeqToSet(self.terms) = SeqToSet(other.terms)

(* Formula.__eq__ *)
Formula_eq(self, other) ==
  IF ~is_formula(other) \/ Len(self.terms) # Len(other.terms) THEN FALSE
  ELSE \A i \in 1..Len(self.terms) : self.terms[i] = other.terms[i]

Formula_add_dedup(self, other) ==
  IF ~is_formula(other) THEN Raise("ValueError")
  ELSE Return(Formula(self.terms \o SelectSeq(other.terms,
                        LAMBDA t : t \notin SeqToSet(self.terms)), "b"))

(* Formula.__add__ *)
Formula_add(self, other) ==
  IF ~is_formula(other) THEN Raise("ValueError")
  ELSE Return(Formula(self.terms \o other.terms, "b"))

RECURSIVE RemoveFirstOf(_, _)
RemoveFirstOf(ts, t) ==
  IF ts = <<>> THEN <<>>
  ELSE IF Head(ts) = t THEN Tail(ts)
  ELSE <<Head(ts)>> \o RemoveFirstOf(Tail(ts), t)

RECURSIVE RemoveEachOnce(_, _)
RemoveEachOnce(ts, us) ==
  IF us = <<>> THEN ts ELSE RemoveEachOnce(RemoveFirstOf(ts, Head(us)), Tail(us))

Formula_sub_once(self, other) ==
  IF ~is_formula(other) THEN Raise("ValueError")
  ELSE Return(Formula(RemoveEachOnce(self.terms, other.terms), "b"))

(* Formula.__sub__ *)
Formula_sub(self, other) ==
  IF ~is_formula(other) THEN Raise("ValueError")
  ELSE LET unwanted == SeqToSet(other.terms)
       IN Return(Formula(SelectSeq(self.terms, LAMBDA t : t \notin unwanted), "b"))

(* The pairwise product of one pair of terms in Formula.__mul__. *)
PairProduct(sterm, oterm) ==
  IF is_term(sterm) THEN Term_mul(sterm, oterm)
  ELSE IF is_term(oterm) THEN Term_mul(oterm, sterm)
  ELSE Expr_mul(sterm, oterm)

(* The list v of Formula.__mul__: the products, self's terms outermost. *)
RECURSIVE Products(_, _, _)
Products(ss, os, all) ==
  IF ss = <<>> THEN <<>>
  ELSE IF os = <<>> THEN Products(Tail(ss), all, all)
  ELSE <<PairProduct(Head(ss), Head(os))>> \o Products(ss, Tail(os), all)

(* sorted(v, key=default_sort_key) for a list v (a stable insertion sort). *)
RECURSIVE InsertExpr(_, _)
InsertExpr(e, s) ==
  IF s = <<>> THEN <<e>>
  ELSE IF ExprLess(e, Head(s)) THEN <<e>> \o s
  ELSE <<Head(s)>> \o InsertExpr(e, Tail(s))

RECURSIVE SortedList(_)
SortedList(v) ==
  IF v = <<>> THEN <<>> ELSE InsertExpr(Head(v), SortedList(Tail(v)))

Formula_mul_no_set(self, other) ==
  IF ~is_formula(other) THEN Raise("ValueError")
  ELSE IF is_factor(self) /\ Formula_eq(self, other) THEN ReturnSelf(self)
  ELSE Return(Formula(SortedList(Products(self.terms, other.terms, other.terms)), "b"))

(* Formula.__mul__ *)
Formula_mul(self, other) ==
  IF ~is_formula(other) THEN Raise("ValueError")
  ELSE IF is_factor(self) /\ Formula_eq(self, other) THEN ReturnSelf(self)
  ELSE LET v == Products(self.terms, other.terms, other.terms)
       IN Return(Formula(SortExprs(SeqToSet(v)), "b"))

-----------------------------------------------------------------------------
(* Factor.                                                                 *)

(* Factor.__init__, for levels that are strings: one FactorTerm per entry
   of levels, in the order given. *)
Factor(name, levels, char) ==
  [Formula([i \in 1..Len(levels) |-> PAtom(FactorTerm(name, levels[i]))], char)
     EXCEPT !.cls = "Factor", !.name = name, !.levels = levels]

-----------------------------------------------------------------------------
(* The objects the operations are applied to.                              *)

x == PAtom(Term("x"))

y == PAtom(Term("y"))

f_a == PAtom(FactorTerm("f", "a"))

f_b == PAtom(FactorTerm("f", "b"))

TermPool == {x, y, One, f_a}

Levels == {"a", "b"}

SeqsUpTo(S, n) == UNION {[1..k -> S] : k \in 0..n}

(* The level lists without a repeated level. *)
LevelLists == {ls \in SeqsUpTo(Levels, Cardinality(Levels)) \ {<<>>} :
                 \A i, j \in 1..Len(ls) : ls[i] = ls[j] => i = j}

(* The terms of the second operand. *)
OtherPool == {x, y, f_a}

Formulas(pool, n) ==
  {Formula(ts, "b") : ts \in SeqsUpTo(pool, n)}
  \cup {Factor("f", ls, "b") : ls \in LevelLists}

NonFormulas == {BareExpr(x)}

NoResult == [op |-> "none"]

(* A record array without fields or rows, and None. *)
NoInput == [names |-> {}, rows |-> <<>>]

NoParam == [given |-> FALSE, names |-> {}, val |-> <<>>]

Init ==
  /\ A \in Formulas(TermPool, MaxLenA)
  /\ B \in Formulas(OtherPool, MaxLenB) \cup NonFormulas
  /\ input = NoInput
  /\ param = NoParam
  /\ ret = NoResult

(* A + B *)
DoAdd ==
  /\ ret' = [op |-> "add", r |-> Formula_add(A, B)]
  /\ UNCHANGED <<A, B, input, param>>

(* A - B *)
DoSub ==
  /\ ret' = [op |-> "sub", r |-> Formula_sub(A, B)]
  /\ UNCHANGED <<A, B, input, param>>

(* A * B *)
DoMul ==
  /\ ret' = [op |-> "mul", r |-> Formula_mul(A, B)]
  /\ UNCHANGED <<A, B, input, param>>

(* A == B *)
DoEq ==
  /\ ret' = [op |-> "eq", r |-> Formula_eq(A, B)]
  /\ UNCHANGED <<A, B, input, param>>

(* A.coefs *)
DoCoefs ==
  /\ A' = getcoefs(A)
  /\ ret' = [op |-> "coefs", r |-> A'.coefs]
  /\ UNCHANGED <<B, input, param>>

(* A.mean *)
DoMean ==
  /\ A' = getcoefs(A)
  /\ ret' = [op |-> "mean", r |-> getmean(A')]
  /\ UNCHANGED <<B, input, param>>

(* A.design_expr *)
DoDesignExpr ==
  /\ A' = getcoefs(A)
  /\ ret' = [op |-> "design_expr", r |-> getdiff(A')]
  /\ UNCHANGED <<B, input, param>>

(* s + o for the first term s of A, a Term, and the first term o of B *)
DoTermAdd ==
  /\ is_formula(B) /\ A.terms # <<>> /\ B.terms # <<>>
  /\ is_term(A.terms[1])
  /\ ret' = [op |-> "term_add", s |-> A.terms[1], o |-> B.terms[1],
             r |-> Term_add(A.terms[1], B.terms[1])]
  /\ UNCHANGED <<A, B, input, param>>

(* s * o for the first term s of A, a FactorTerm, and the first term o of B *)
DoFactorTermMul ==
  /\ is_formula(B) /\ A.terms # <<>> /\ B.terms # <<>>
  /\ is_term(A.terms[1]) /\ is_factor_term_atom(AtomOf(A.terms[1]))
  /\ ret' = [op |-> "factor_term_mul", s |-> A.terms[1], o |-> B.terms[1],
             r |-> FactorTerm_mul(A.terms[1], B.terms[1])]
  /\ UNCHANGED <<A, B, input, param>>

Next ==
  \/ DoAdd
  \/ DoSub
  \/ DoMul
  \/ DoEq
  \/ DoCoefs
  \/ DoMean
  \/ DoDesignExpr
  \/ DoTermAdd
  \/ DoFactorTermMul

Spec == Init /\ [][Next]_vars


-----------------------------------------------------------------------------
(* Field names of record arrays.  str(atom) keeps what tells two names
   apart: the leading underscore of a Dummy, the name, the level of a
   FactorTerm and the number of a numbered symbol.                         *)

Str(a) ==
  [us |-> a.cls \in {"Beta", "Dummy"}, name |-> a.name, level |-> a.level,
   idx |-> IF a.cls \in {"Beta", "Dummy"} \/ a.name \in {"__t", "__p"}
           THEN a.idx ELSE 0 - 1]

(* A plain column name. *)
ColName(n) == [us |-> FALSE, name |-> n, level |-> "", idx |-> 0 - 1]

(* The field name of a design column: str(expression), or 'intercept'. *)
ExprField(e) == [label |-> "expr", expr |-> e]

InterceptField == [label |-> "intercept", expr |-> {}]

-----------------------------------------------------------------------------
(* Formula._setup_design.                                                  *)

(* for j: d[j] = d[j].subs(old, new) *)
SubsEach(d, old, new) == [j \in 1..Len(d) |-> PSubs(d[j], old, new)]

(* The renaming loops: olds[i] is replaced by news[i] in every entry of d,
   one i after the other. *)
RECURSIVE SubsLoop(_, _, _)
SubsLoop(d, olds, news) ==
  IF olds = <<>> THEN d
  ELSE SubsLoop(SubsEach(d, Head(olds), Head(news)), Tail(olds), Tail(news))

preterm_all_names(terms) == {Str(terms[i]) : i \in 1..Len(terms)}

(* The preterm names: str(t), or the factor's name for a FactorTerm. *)
preterm_names(terms) ==
  {IF ~is_factor_term_atom(terms[i]) THEN Str(terms[i]) ELSE ColName(terms[i].name) :
     i \in 1..Len(terms)}

(* Op(v), with v evaluated once. *)
With(v, Op(_)) == CHOOSE r \in {Op(u) : u \in {v}} : TRUE

(* The body of _setup_design once self.design_expr (d) and
   getterms(self.mean) (terms) are known. *)
setup_design_from(self, d, terms, random_offset) ==
  LET newterms == [i \in 1..Len(terms) |-> Symbol("__t", (i - 1) + random_offset)]
      params == getparams(d)
      newparams == [i \in 1..Len(params) |-> Dummy("__p", (i - 1) + random_offset)]
  IN [self EXCEPT
        !.has_setup = TRUE,
        !.setup = [random_offset |-> random_offset,
                   f_args |-> newparams \o newterms,
                   f_body |-> SubsLoop(SubsLoop(d, terms, newterms), params, newparams),
                   param |-> [i \in 1..Len(params) |-> Str(params[i])],
                   term |-> [i \in 1..Len(terms) |-> Str(terms[i])],
                   preterm |-> preterm_names(terms),
                   terms |-> terms]]

(* Formula._setup_design with the random offset drawn: the object after it.
   Reading design_expr sets the coefficients. *)
setup_design(self0, random_offset) ==
  With(getcoefs(self0), LAMBDA self :
    With(getdiff(self), LAMBDA d :
      With(getterms(<<getmean(self)>>), LAMBDA terms :
        setup_design_from(self, d, terms, random_offset))))

-----------------------------------------------------------------------------
(* Formula.design, without contrasts.  A record array is [names, rows]: the
   field names and, per row, the value of each field; the parameter record
   is [given, names, val], given = FALSE for None.                         *)

RECURSIVE ProdValues(_, _)
ProdValues(m, env) ==
  IF m = <<>> THEN 1 ELSE env[Head(m)] * ProdValues(Tail(m), env)

RECURSIVE SumValues(_, _)
SumValues(p, env) ==
  IF p = {} THEN 0
  ELSE LET t == CHOOSE u \in p : TRUE
       IN t.c * ProdValues(t.m, env) + SumValues(p \ {t}, env)

(* The value of an expression where env gives the value of each atom. *)
EvalExpr(p, env) == SumValues(p, env)

TermColumn_factor_value(t, row) ==
  IF ~is_factor_term_atom(t) THEN row[ColName(t.name)]
  ELSE IF row[ColName(t.name)] \in {"a", "b", "c"} THEN 1 ELSE 0

(* The column of term_recarray for the term atom t, at one row of input. *)
TermColumn(t, row) ==
  IF ~is_factor_term_atom(t) THEN row[ColName(t.name)]
  ELSE IF row[ColName(t.name)] = t.level THEN 1 ELSE 0

(* np.squeeze of the n x k matrix D (a sequence of rows): the axes of
   length 1 are dropped, the data kept in row-major order. *)
RECURSIVE Flatten(_)
Flatten(rows) == IF rows = <<>> THEN <<>> ELSE Head(rows) \o Flatten(Tail(rows))

Squeeze(D, n, k) ==
  [kind |-> "float",
   shape |-> SelectSeq(<<n, k>>, LAMBDA dim : dim # 1),
   data |-> Flatten(D)]

DesignResult(self, raised, out) == [obj |-> self, raised |-> raised, out |-> out]

NoOut == [kind |-> "none"]

intercept_design_always_float(n, return_float) ==
  [kind |-> "float", shape |-> <<n>>, data |-> [i \in 1..n |-> 1]]

(* The intercept-only branch: np.ones(n), viewed as one field 'intercept'
   unless return_float. *)
intercept_design(n, return_float) ==
  IF return_float
  THEN [kind |-> "float", shape |-> <<n>>, data |-> [i \in 1..n |-> 1]]
  ELSE [kind |-> "struct", names |-> <<InterceptField>>, shape |-> <<n>>,
        rows |-> [i \in 1..n |-> <<1>>]]

(* The check of the input's field names against the preterm names. *)
design_check_input(self, obs) == self.setup.preterm \subseteq obs.names

(* _setup_design on a Formula without any entry: self.mean is then
   np.sum of an empty float array, the numpy number 0.0; getparams sympifies
   it, but getterms calls its .atoms(), which a numpy number does not have.
   The coefficients are set by then. *)
setup_design_fails(self0) == self0.terms = <<>>

(* The body of design after self._setup_design(). *)
design_after_setup(self, obs, par, return_float) ==
  LET n == Len(obs.rows)
      args == self.setup.f_args
      nparam == Len(self.setup.param)
      nterm == Len(self.setup.terms)
      k == Len(self.setup.f_body)
      paramvals == IF par.given
                   THEN [i \in 1..nparam |-> par.val[self.setup.param[i]]]
                   ELSE <<>>
      floats(i) == [j \in 1..nterm |-> TermColumn(self.setup.terms[j], obs.rows[i])]
      env(i) == With(paramvals \o floats(i), LAMBDA vals :
                  [a \in SeqToSet(args) |->
                     vals[CHOOSE q \in 1..Len(args) : args[q] = a]])
      D == [i \in 1..n |->
              With(env(i), LAMBDA e :
                [j \in 1..k |-> EvalExpr(self.setup.f_body[j], e)])]
  IN IF ~design_check_input(self, obs)
       THEN DesignResult(self, "ValueError", NoOut)
     ELSE IF par.given /\ ~(SeqToSet(self.setup.param) \subseteq par.names)
       THEN DesignResult(self, "ValueError", NoOut)
     ELSE IF self.terms = <<One>>
       THEN DesignResult(self, "", intercept_design(n, return_float))
     ELSE IF nterm = 0
       THEN DesignResult(self, "ValueError", NoOut)
     ELSE IF Len(paramvals) + nterm # Len(args)
       THEN DesignResult(self, "TypeError", NoOut)
     ELSE IF return_float
       THEN DesignResult(self, "", Squeeze(D, n, k))
     ELSE DesignResult(self, "",
            [kind |-> "struct",
             names |-> With(getdiff(self), LAMBDA de :
                         [j \in 1..k |-> ExprField(de[j])]),
             shape |-> <<n>>, rows |-> D])

(* Formula.design(input, param, return_float), contrasts=None, with the
   random offset that _setup_design draws. *)
design(self0, obs, par, return_float, random_offset) ==
  IF setup_design_fails(self0)
  THEN DesignResult(getcoefs(self0), "AttributeError", NoOut)
  ELSE With(setup_design(self0, random_offset), LAMBDA self :
         design_after_setup(self, obs, par, return_float))

-----------------------------------------------------------------------------
(* Properties of the Formula algebra.                                      *)

AllTerms(F) == \A i \in 1..Len(F.terms) : is_term(F.terms[i])

BetasOf(e) == {a \in PAtoms(e) : a.cls = "Beta"}

(* C2: for a Formula whose terms are Terms, mean has one coefficient per
   distinct term, and the derivative of mean with respect to the coefficient
   of a term t is t itself, also when t occurs more than once. *)
C2_MeanDerivativeIsTerm ==
  (ret.op = "mean" /\ AllTerms(A)) =>
    /\ Cardinality(BetasOf(ret.r)) = Cardinality(SeqToSet(A.terms))
    /\ \A c \in A.coefs : PDiff(ret.r, c.coef) = c.term

(* C3: A + B raises ValueError when B is no Formula; otherwise the result is
   a new Formula holding A's terms followed by B's terms, duplicates kept,
   and Formula([]) + X == X. *)
C3_AddConcatenates ==
  ret.op = "add" =>
    IF ~is_formula(B) THEN ret.r.raised = "ValueError"
    ELSE /\ ret.r.raised = "" /\ ~ret.r.same
         /\ ret.r.obj.cls = "Formula"
         /\ Len(ret.r.obj.terms) = Len(A.terms) + Len(B.terms)
         /\ \A i \in 1..Len(A.terms) : ret.r.obj.terms[i] = A.terms[i]
         /\ \A j \in 1..Len(B.terms) : ret.r.obj.terms[Len(A.terms) + j] = B.terms[j]
         /\ (A.terms = <<>> => Formula_eq(ret.r.obj, B))

C3_Witness ==
  /\ ret.op = "add" /\ is_formula(B) /\ ret.r.raised = ""
  /\ A.terms # <<>> /\ B.terms # <<>>
  /\ SeqToSet(A.terms) \cap SeqToSet(B.terms) # {}
  /\ Len(ret.r.obj.terms) = Len(A.terms) + Len(B.terms)

(* The entries of ts that are not in the set S, in order. *)
RECURSIVE Without(_, _)
Without(ts, S) ==
  IF ts = <<>> THEN <<>>
  ELSE IF Head(ts) \in S THEN Without(Tail(ts), S)
  ELSE <<Head(ts)>> \o Without(Tail(ts), S)

(* C4: A - B is a new Formula holding the terms of A equal to no term of B,
   in A's order: every occurrence of a removed term goes, terms of B not in
   A are ignored, and X - Formula([]) == X. *)
C4_SubRemovesEveryOccurrence ==
  (ret.op = "sub" /\ is_formula(B)) =>
    /\ ret.r.raised = "" /\ ~ret.r.same
    /\ ret.r.obj.terms = Without(A.terms, SeqToSet(B.terms))
    /\ SeqToSet(ret.r.obj.terms) \cap SeqToSet(B.terms) = {}
    /\ (B.terms = <<>> => Formula_eq(ret.r.obj, A))

C4_Witness ==
  /\ ret.op = "sub" /\ is_formula(B) /\ ret.r.raised = ""
  /\ \E i, j \in 1..Len(A.terms) : i # j /\ A.terms[i] = A.terms[j]
        /\ Len(B.terms) = 1 /\ B.terms[1] = A.terms[i]
  /\ ret.r.obj.terms = <<>>

(* C5: A * B raises ValueError when B is no Formula; a Factor A with A == B
   is returned itself; otherwise the result holds the pairwise products of
   the terms of A and of B, each once, sorted by the canonical ordering. *)
C5_MulProductsSortedOnce ==
  ret.op = "mul" =>
    IF ~is_formula(B) THEN ret.r.raised = "ValueError"
    ELSE IF is_factor(A) /\ A.terms = B.terms
         THEN ret.r.raised = "" /\ ret.r.same /\ ret.r.obj = A
    ELSE /\ ret.r.raised = "" /\ ~ret.r.same
         /\ SeqToSet(ret.r.obj.terms) =
              {PMul(A.terms[i], B.terms[j]) :
                 i \in 1..Len(A.terms), j \in 1..Len(B.terms)}
         /\ \A i, j \in 1..Len(ret.r.obj.terms) :
              i < j => ExprLess(ret.r.obj.terms[i], ret.r.obj.terms[j])

C5_Witness ==
  /\ ret.op = "mul" /\ is_formula(B) /\ ret.r.raised = "" /\ ~ret.r.same
  /\ Len(ret.r.obj.terms) >= 2
  /\ Len(ret.r.obj.terms) < Len(A.terms) * Len(B.terms)

(* C6: in A * B, a FactorTerm f that is a term of both A and B gives f, and
   not the square of f, also when A is a plain Formula. *)
C6_MulFactorTermIdempotent ==
  (ret.op = "mul" /\ is_formula(B) /\ ret.r.raised = "") =>
    \A f \in SeqToSet(A.terms) \cap SeqToSet(B.terms) :
      (is_term(f) /\ is_factor_term_atom(AtomOf(f))) =>
        /\ f \in SeqToSet(ret.r.obj.terms)
        /\ PMul(f, f) \notin SeqToSet(ret.r.obj.terms)

(* C7: t + t is t for every Term t, f * f is f for every FactorTerm f, and
   two different terms give the ordinary sum or product. *)
C7_TermIdempotence ==
  /\ ret.op = "term_add" =>
       IF ret.s = ret.o THEN ret.r = ret.s ELSE ret.r = PAdd(ret.s, ret.o)
  /\ ret.op = "factor_term_mul" =>
       IF ret.s = ret.o THEN ret.r = ret.s ELSE ret.r = PMul(ret.s, ret.o)

C7_Witness ==
  /\ ret.op = "term_add" /\ ret.s = ret.o
  /\ is_factor_term_atom(AtomOf(ret.s))
  /\ ret.r = ret.s

(* C8: A == B holds iff the term sequences have the same length and equal
   terms at every position; the same terms in another order, or with other
   multiplicities, are not equal; two empty Formulas are equal. *)
C8_EqPositional ==
  (ret.op = "eq" /\ is_formula(B)) =>
    (ret.r <=> (/\ Len(A.terms) = Len(B.terms)
                /\ \A i \in 1..Len(A.terms) : A.terms[i] = B.terms[i]))

C8_Witness ==
  /\ ret.op = "eq" /\ is_formula(B)
  /\ SeqToSet(A.terms) = SeqToSet(B.terms)
  /\ Len(A.terms) = Len(B.terms)
  /\ A.terms # B.terms
  /\ ret.r = FALSE


-----------------------------------------------------------------------------
(* Designs of wide linear Formulas, and of small Formulas with factors and
   non-term parameters.                                                    *)

z == PAtom(Term("z"))

w == PAtom(Term("w"))

th == PAtom(Symbol("th", 0))

(* The intercept Formula I. *)
I == Formula(<<One>>, "b")

(* Pairwise distinct Terms, products of Terms and the constant 1. *)
WideTerms ==
  <<x, y, PMul(x, y), One, z, w, PMul(x, z), PMul(x, w), PMul(y, z),
    PMul(y, w), PMul(z, w), PMul(x, x), PMul(y, y)>>

WideFrom(start, k) ==
  [i \in 1..k |-> WideTerms[((start + i - 1) % Len(WideTerms)) + 1]]

WideFormulas ==
  {Formula(WideFrom(start, k), "b") :
     start \in {0, 4},
     k \in 1..(IF MaxWide < Len(WideTerms) THEN MaxWide ELSE Len(WideTerms))}

DesignPool == {x, One, f_a, f_b, PMul(th, x)}

DesignFormulas ==
  {Formula(ts, "b") : ts \in SeqsUpTo(DesignPool, MaxTermsD)}
  \cup {Factor("f", ls, "b") : ls \in LevelLists}

(* The values np.random.randint may draw, cut down to two. *)
Offsets == {0, 1}

(* The value of a column at row i: a different prime for each numeric
   column, moving by one at each row; the level of the factor column. *)
Numbers == <<2, 3, 5, 7>>

NumericColumns == <<"x", "y", "z", "w">>

FactorValues == <<"a", "b", "c">>

CellValue(col, i) ==
  IF col = ColName("f") THEN FactorValues[((i - 1) % Len(FactorValues)) + 1]
  ELSE IF col = ColName("g") THEN 0
  ELSE LET q == CHOOSE c \in 1..Len(NumericColumns) : ColName(NumericColumns[c]) = col
       IN Numbers[((q - 1 + i - 1) % Len(Numbers)) + 1]

MkInput(names, n) ==
  [names |-> names, rows |-> [i \in 1..n |-> [col \in names |-> CellValue(col, i)]]]

AllColumns == {ColName(c) : c \in {"x", "y", "z", "w", "f", "g"}}

WideInputs == {MkInput(AllColumns, n) : n \in 1..MaxRows}

DesignInputs ==
  {MkInput(names, n) :
     names \in {AllColumns, AllColumns \ {ColName("x")}, AllColumns \ {ColName("f")},
                {ColName("x"), ColName("f")}},
     n \in 1..MaxRows}

MkParam(names) ==
  [given |-> TRUE, names |-> names,
   val |-> [nm \in names |-> IF nm.us THEN 2 + nm.idx ELSE 5]]

AllParamNames ==
  {Str(Beta("b", i)) : i \in 0..MaxTermsD} \cup {Str(Symbol("th", 0)), ColName("g")}

DesignParams ==
  {NoParam, MkParam(AllParamNames), MkParam(AllParamNames \ {Str(Symbol("th", 0))}),
   MkParam({Str(Symbol("th", 0))})}

(* A.design(input, param, return_float) *)
DoDesign ==
  \E return_float \in BOOLEAN, random_offset \in Offsets :
    \E r \in {design(A, input, param, return_float, random_offset)} :
       /\ A' = r.obj
       /\ ret' = [op |-> "design", return_float |-> return_float,
                  raised |-> r.raised, out |-> r.out]
       /\ UNCHANGED <<B, input, param>>

InitWide ==
  /\ A \in WideFormulas
  /\ B = I
  /\ input \in WideInputs
  /\ param = NoParam
  /\ ret = NoResult

NextWide ==
  \/ DoDesign
  \/ DoDesignExpr

SpecWide == InitWide /\ [][NextWide]_vars

InitDesign ==
  /\ A \in DesignFormulas
  /\ B = I
  /\ input \in DesignInputs
  /\ param \in DesignParams
  /\ ret = NoResult

NextDesign ==
  \/ DoDesign
  \/ DoDesignExpr

SpecDesign == InitDesign /\ [][NextDesign]_vars

-----------------------------------------------------------------------------
(* Properties of design.                                                   *)

TermAtomsOf(F) == {a \in AtomsOfSeq(F.terms) : is_term_atom(a)}

(* The value of the term atoms at row i of input. *)
RowEnv(F, obs, i) == [a \in TermAtomsOf(F) |-> TermColumn(a, obs.rows[i])]

Distinct(ts) == \A i, j \in 1..Len(ts) : ts[i] = ts[j] => i = j

(* C1: for k pairwise distinct terms (Terms, products of Terms, the constant
   1) and no non-term parameter, design(obs, return_float=True) on n >= 2
   rows holds, in row i and column j, term j evaluated on row i: the columns
   are in the order of the term sequence, for every k. *)
C1_DesignColumnsInTermOrder ==
  (/\ ret.op = "design" /\ ret.return_float /\ ~param.given
   /\ Len(input.rows) >= 2 /\ Distinct(A.terms)) =>
    LET n == Len(input.rows)
        k == Len(A.terms)
    IN /\ ret.raised = ""
       /\ Len(ret.out.data) = n * k
       /\ \A i \in 1..n, j \in 1..k :
            ret.out.data[(i - 1) * k + j] = EvalExpr(A.terms[j], RowEnv(A, input, i))

(* The same statement for at most ten terms. *)
C1_UpToTenTerms == Len(A.terms) <= 10 => C1_DesignColumnsInTermOrder

(* C9: design raises ValueError if a preterm name (a term's name, the
   factor's name for each of its levels) is no field of the input, or if
   param is given and lacks a non-term parameter of the design expression;
   fields beyond these never make it fail, and the input is checked before
   the intercept-only case and before the evaluation. *)
C9_DesignFieldChecks ==
  ret.op = "design" =>
    LET missing_input == ~({ColName(a.name) : a \in TermAtomsOf(A)} \subseteq input.names)
        missing_param == /\ param.given
                         /\ ~(SeqToSet(A.setup.param) \subseteq param.names)
        no_term == A.terms # <<One>> /\ TermAtomsOf(A) = {}
    IN /\ (missing_input \/ missing_param) => ret.raised = "ValueError"
       /\ (ret.raised = "ValueError") => (missing_input \/ missing_param \/ no_term)

C9_Witness ==
  /\ ret.op = "design" /\ ret.raised = ""
  /\ \E a, b \in TermAtomsOf(A) : a # b /\ is_factor_term_atom(a) /\ is_factor_term_atom(b)
  /\ ColName("f") \in input.names
  /\ ColName("g") \in input.names

(* C10: for the Formula whose terms are exactly [1], design(obs) is a vector
   of len(obs) ones whatever the fields of obs: a float vector when
   return_float, one field 'intercept' otherwise. *)
C10_InterceptOnly ==
  (ret.op = "design" /\ A.terms = <<One>>) =>
    LET n == Len(input.rows)
    IN /\ ret.raised = ""
       /\ ret.out.shape = <<n>>
       /\ IF ret.return_float
          THEN ret.out.kind = "float" /\ ret.out.data = [i \in 1..n |-> 1]
          ELSE /\ ret.out.kind = "struct"
               /\ ret.out.names = <<InterceptField>>
               /\ ret.out.rows = [i \in 1..n |-> <<1>>]

C10_Witness ==
  /\ ret.op = "design" /\ A.terms = <<One>>
  /\ ~ret.return_float /\ ret.raised = ""
  /\ ret.out.names = <<InterceptField>>
  /\ ColName("f") \notin input.names
  /\ Len(input.rows) >= 2

(* The entry in row i and column j of a design with k columns. *)
OutCell(out, i, j, k) ==
  IF out.kind = "float" THEN out.data[(i - 1) * k + j] ELSE out.rows[i][j]

(* C11: for a Factor named F with levels L and an input with a column F,
   design has one column F_l per level l of L, holding 1 in the rows whose
   value of F is l and 0 in the others: a row whose value is in L has exactly
   one 1, a row whose value is not in L has none. *)
C11_FactorIndicatorColumns ==
  (ret.op = "design" /\ is_factor(A) /\ ColName(A.name) \in input.names) =>
    LET n == Len(input.rows)
        k == Len(A.levels)
        val(i) == input.rows[i][ColName(A.name)]
        ones(i) == {j \in 1..k : OutCell(ret.out, i, j, k) = 1}
    IN /\ ret.raised = ""
       /\ ret.out.kind = "struct" =>
            /\ Len(ret.out.names) = k
            /\ \A j \in 1..k : \E l \in SeqToSet(A.levels) :
                 /\ ret.out.names[j] = ExprField(PAtom(FactorTerm(A.name, l)))
                 /\ \A i \in 1..n : ret.out.rows[i][j] = IF val(i) = l THEN 1 ELSE 0
       /\ ret.out.kind = "float" => Len(ret.out.data) = n * k
       /\ \A l \in SeqToSet(A.levels) : \E j \in 1..k : \A i \in 1..n :
            OutCell(ret.out, i, j, k) = IF val(i) = l THEN 1 ELSE 0
       /\ \A i \in 1..n :
            /\ \A j \in 1..k : OutCell(ret.out, i, j, k) \in {0, 1}
            /\ Cardinality(ones(i)) = IF val(i) \in SeqToSet(A.levels) THEN 1 ELSE 0

C11_Witness ==
  /\ ret.op = "design" /\ is_factor(A) /\ ret.raised = ""
  /\ Len(A.levels) = 2 /\ Len(input.rows) = 2
  /\ ret.out.kind = "struct"
  /\ ret.out.rows = <<<<1, 0>>, <<0, 1>>>>

-----------------------------------------------------------------------------
(* Factor: construction, fromcol, main_effect, get_term, stratify; and      *)
(* Formula.__getitem__, Formula.fromrec.                                    *)
(*                                                                          *)
(* A levels argument or a column is [kind, vals]: kind "U" for text, with   *)
(* the strings as vals, and kind "f" for numbers, with twice the number as  *)
(* vals (3 is the number 1.5).  An integer level is held as its str().      *)

(* str(n) for the integers of the model. *)
IntStr(n) == <<"1", "2">>[n]

Failed(e) == [raised |-> e, obj |-> Formula(<<>>, "")]

Done(obj) == [raised |-> "", obj |-> obj]

(* Factor.__init__: numbers must all be integral and become ints; then one
   FactorTerm per entry of the levels, as they come. *)
Factor_init(name, levels, char) ==
  IF levels.kind = "f" /\ \E i \in 1..Len(levels.vals) : levels.vals[i] % 2 # 0
  THEN Failed("ValueError")
  ELSE Done(Factor(name,
                   IF levels.kind = "f"
                   THEN [i \in 1..Len(levels.vals) |-> IntStr(levels.vals[i] \div 2)]
                   ELSE levels.vals,
                   char))

(* The order of two values of one kind: of numbers, or of strings. *)
ValueLess(kind, u, v) == IF kind = "f" THEN u < v ELSE NameRank(u) < NameRank(v)

(* np.unique: the distinct values, ascending. *)
Unique(col) ==
  LET S == SeqToSet(col.vals)
  IN [kind |-> col.kind,
      vals |-> CHOOSE q \in [1..Cardinality(S) -> S] :
                 \A i, j \in 1..Cardinality(S) :
                   i < j => ValueLess(col.kind, q[i], q[j])]

(* Factor.fromcol, for a one-dimensional column without field names. *)
fromcol(col, name) ==
  Factor_init(IF name = "" THEN "factor" ELSE name, Unique(col), "b")

(* p - q *)
PSub(p, q) == PAdd(p, {[c |-> 0 - t.c, m |-> t.m] : t \in q})

main_effect_first_ref(self) ==
  IF self.terms = <<>>
  THEN [raised |-> "IndexError", obj |-> Formula(<<>>, ""), self |-> self]
  ELSE [raised |-> "",
        obj |-> Formula([i \in 1..(Len(self.terms) - 1) |->
                           PSub(self.terms[i + 1], self.terms[1])], "b"),
        self |-> self]

(* Factor._getmaineffect with ref = -1, as the property main_effect calls
   it: the result, and self after the call (v is a copy of self._terms). *)
main_effect(self) ==
  IF self.terms = <<>>
  THEN [raised |-> "IndexError", obj |-> Formula(<<>>, ""), self |-> self]
  ELSE LET ref_term == self.terms[Len(self.terms)]
       IN [raised |-> "",
           obj |-> Formula([i \in 1..(Len(self.terms) - 1) |->
                              PSub(self.terms[i], ref_term)], "b"),
           self |-> self]

(* str(t) of a term of a Formula: the name for an atom (the class is not
   seen in it), the printed expression otherwise. *)
TermStr(e) ==
  IF IsAtomExpr(e) THEN [atom |-> TRUE, s |-> Str(AtomOf(e)), e |-> {}]
  ELSE [atom |-> FALSE, s |-> ColName(""), e |-> e]

(* What a lookup returns or raises. *)
Found(e) == [raised |-> "", r |-> e]

NotFound(err) == [raised |-> err, r |-> {}]

(* Formula.__getitem__: the first term whose str is key. *)
getitem(self, key) ==
  IF \E i \in 1..Len(self.terms) : TermStr(self.terms[i]) = key
  THEN Found(self.terms[CHOOSE i \in 1..Len(self.terms) :
                          /\ TermStr(self.terms[i]) = key
                          /\ \A j \in 1..(i - 1) : TermStr(self.terms[j]) # key])
  ELSE NotFound("ValueError")

(* Factor.get_term *)
get_term(self, level) ==
  IF level \notin SeqToSet(self.levels) THEN NotFound("ValueError")
  ELSE getitem(self, TermStr(PAtom(FactorTerm(self.name, level))))

(* The characters of the names handed to stratify. *)
Chars(v) ==
  CASE v = "th" -> <<"t", "h">>
    [] v = "t_h" -> <<"t", "_", "h">>
    [] v = "t h" -> <<"t", " ", "h">>

(* string.ascii_letters + string.digits *)
LettersAndDigits ==
  {"a", "b", "c", "d", "e", "f", "g", "h", "i", "j", "k", "l", "m", "n", "o",
   "p", "q", "r", "s", "t", "u", "v", "w", "x", "y", "z",
   "A", "B", "C", "D", "E", "F", "G", "H", "I", "J", "K", "L", "M", "N", "O",
   "P", "Q", "R", "S", "T", "U", "V", "W", "X", "Y", "Z",
   "0", "1", "2", "3", "4", "5", "6", "7", "8", "9"}

(* Factor.stratify: a Formula over the Factor's terms whose coefficients are
   named after variable. *)
stratify(self, variable) ==
  IF ~(SeqToSet(Chars(variable)) \subseteq LettersAndDigits) THEN Failed("ValueError")
  ELSE Done([Formula(self.terms, variable) EXCEPT !.name = self.name])

(* The column n of a record array. *)
Column(rec, n) ==
  [kind |-> rec.kinds[n], vals |-> [i \in 1..Len(rec.rows) |-> rec.rows[i][n]]]

(* The dict f of fromrec, as the sequence of its (name, formula) items in
   the order of the fields: a Factor for a column of kind S, O or U, the
   Formula of one Term otherwise. *)
fromrec_items(rec) ==
  [i \in 1..Len(rec.fields) |->
     LET n == rec.fields[i]
     IN [n |-> n,
         t |-> IF rec.kinds[n] \in {"S", "O", "U"}
               THEN fromcol(Column(rec, n), n).obj
               ELSE Formula(<<PAtom(Term(n))>>, "b")]]

(* for d in drop: del f[d] -- a name that is no key raises KeyError. *)
RECURSIVE fromrec_drop(_, _)
fromrec_drop(items, drop) ==
  IF drop = <<>> THEN [raised |-> "", items |-> items]
  ELSE IF ~\E i \in 1..Len(items) : items[i].n = Head(drop)
       THEN [raised |-> "KeyError", items |-> items]
  ELSE fromrec_drop(SelectSeq(items, LAMBDA it : it.n # Head(drop)), Tail(drop))

(* sum(elements, start): start + e1 + e2 + ... with Formula.__add__. *)
RECURSIVE fromrec_sum(_, _)
fromrec_sum(start, elements) ==
  IF elements = <<>> THEN start
  ELSE fromrec_sum(Formula_add(start, Head(elements).t).obj, Tail(elements))

fromrec_keep_all(rec, keep, drop) ==
  LET d == fromrec_drop(fromrec_items(rec), drop)
  IN IF d.raised # "" THEN Failed(d.raised)
     ELSE Done(fromrec_sum(Formula(<<>>, "b"), d.items))

(* Formula.fromrec *)
fromrec(rec, keep, drop) ==
  LET d == fromrec_drop(fromrec_items(rec), drop)
  IN IF d.raised # "" THEN Failed(d.raised)
     ELSE Done(fromrec_sum(Formula(<<>>, "b"),
                           IF keep # {}
                           THEN SelectSeq(d.items, LAMBDA it : it.n \in keep)
                           ELSE d.items))

(* The levels arguments: text levels with repeats and in any order, numbers
   1, 1.5 and 2, and the empty list (which numpy reads as numbers). *)
LevelArgs ==
  {[kind |-> a[1], vals |-> a[2]] :
     a \in ({"U"} \X (SeqsUpTo(Levels, MaxLevels) \ {<<>>}))
            \cup ({"f"} \X SeqsUpTo({2, 3, 4}, MaxLevels))}

(* The record arrays: text columns f and g, number columns x and y. *)
RecKinds == [n \in {"f", "g", "x", "y"} |-> IF n = "f" THEN "U" ELSE IF n = "g" THEN "S" ELSE "f"]

RecCell(n, i) ==
  CASE n = "f" -> <<"b", "a", "b">>[((i - 1) % 3) + 1]
    [] n = "g" -> <<"a", "a", "c">>[((i - 1) % 3) + 1]
    [] n = "x" -> <<4, 2, 4>>[((i - 1) % 3) + 1]
    [] n = "y" -> <<3, 2, 3>>[((i - 1) % 3) + 1]

MkRec(fields, n) ==
  [fields |-> fields, kinds |-> RecKinds,
   rows |-> [i \in 1..n |-> [f \in SeqToSet(fields) |-> RecCell(f, i)]]]

Recs ==
  {MkRec(fields, n) :
     fields \in {<<"x", "f">>, <<"f", "x">>, <<"f", "g", "x">>, <<"y", "g">>},
     n \in 1..MaxRows}

Keeps == {{}, {"f"}, {"x", "f"}, {"g", "x"}}

Drops == {<<>>, <<"x">>, <<"g">>, <<"g", "x">>}

GetTermLevels == {"a", "b", "c", "1"}

GetItemKeys == {TermStr(PAtom(FactorTerm("f", "a"))), TermStr(PAtom(FactorTerm("f", "1"))),
                TermStr(x)}

StratifyVariables == {"th", "t_h", "t h"}

(* A = Factor('f', levels) *)
DoFactor ==
  \E levels \in LevelArgs :
    /\ A' = IF Factor_init("f", levels, "b").raised = ""
            THEN Factor_init("f", levels, "b").obj
            ELSE A
    /\ ret' = [op |-> "Factor", levels |-> levels,
               raised |-> Factor_init("f", levels, "b").raised]
    /\ UNCHANGED <<B, input, param>>

(* A = Factor.fromcol(input[n], n) *)
DoFromcol ==
  \E i \in 1..Len(input.fields) :
    \E r \in {fromcol(Column(input, input.fields[i]), input.fields[i])} :
      /\ A' = IF r.raised = "" THEN r.obj ELSE A
      /\ ret' = [op |-> "fromcol", col |-> Column(input, input.fields[i]),
                 raised |-> r.raised]
      /\ UNCHANGED <<B, input, param>>

(* A.main_effect *)
DoMainEffect ==
  /\ is_factor(A)
  /\ \E r \in {main_effect(A)} :
       /\ A' = r.self
       /\ ret' = [op |-> "main_effect", raised |-> r.raised, r |-> r.obj, self |-> A]
  /\ UNCHANGED <<B, input, param>>

(* A.get_term(level) *)
DoGetTerm ==
  /\ is_factor(A)
  /\ \E level \in GetTermLevels :
       \E r \in {get_term(A, level)} :
         ret' = [op |-> "get_term", level |-> level, raised |-> r.raised, r |-> r.r]
  /\ UNCHANGED <<A, B, input, param>>

(* A[key] *)
DoGetItem ==
  /\ \E key \in GetItemKeys :
       \E r \in {getitem(A, key)} :
         ret' = [op |-> "getitem", key |-> key, raised |-> r.raised, r |-> r.r]
  /\ UNCHANGED <<A, B, input, param>>

(* A.stratify(variable) *)
DoStratify ==
  /\ is_factor(A)
  /\ \E variable \in StratifyVariables :
       \E r \in {stratify(A, variable)} :
         ret' = [op |-> "stratify", variable |-> variable, raised |-> r.raised,
                 r |-> r.obj]
  /\ UNCHANGED <<A, B, input, param>>

(* Formula.fromrec(input, keep, drop) *)
DoFromrec ==
  /\ \E keep \in Keeps, drop \in Drops :
       \E r \in {fromrec(input, keep, drop)} :
         ret' = [op |-> "fromrec", keep |-> keep, drop |-> drop,
                 raised |-> r.raised, r |-> r.obj]
  /\ UNCHANGED <<A, B, input, param>>

InitFactor ==
  /\ A = Formula(<<>>, "b")
  /\ B = I
  /\ input \in Recs
  /\ param = NoParam
  /\ ret = NoResult

NextFactor ==
  \/ DoFactor
  \/ DoFromcol
  \/ DoMainEffect
  \/ DoGetTerm
  \/ DoGetItem
  \/ DoStratify
  \/ DoFromrec

SpecFactor == InitFactor /\ [][NextFactor]_vars

-----------------------------------------------------------------------------
(* Properties of Factor, __getitem__ and fromrec.                          *)

(* C12: a Factor built by Factor(name, levels) or by Factor.fromcol has one
   FactorTerm per distinct level, in ascending level order: no two terms for
   one level, and the terms sorted, also for a levels argument with repeated
   or unsorted values. *)
C12_FactorLevelsDistinctSorted ==
  (ret.op \in {"Factor", "fromcol"} /\ ret.raised = "") =>
    /\ is_factor(A)
    /\ Len(A.terms) = Len(A.levels)
    /\ \A i \in 1..Len(A.terms) : A.terms[i] = PAtom(FactorTerm(A.name, A.levels[i]))
    /\ \A i, j \in 1..Len(A.levels) :
         i < j => NameRank(A.levels[i]) < NameRank(A.levels[j])

(* C13: main_effect of a Factor with k levels is a Formula with k-1 terms,
   the i-th being term_i - term_ref for every position i but the reference,
   in the Factor's order, the reference being the last term; the Factor's
   own terms are as before the call. *)
C13_MainEffectContrasts ==
  (ret.op = "main_effect" /\ Len(ret.self.terms) >= 1) =>
    LET k == Len(ret.self.terms)
    IN /\ ret.raised = ""
       /\ ret.r.cls = "Formula"
       /\ Len(ret.r.terms) = k - 1
       /\ \A i \in 1..(k - 1) :
            ret.r.terms[i] = PSub(ret.self.terms[i], ret.self.terms[k])
       /\ A = ret.self

C13_Witness ==
  /\ ret.op = "main_effect" /\ ret.raised = ""
  /\ ret.self.levels = <<"a", "b">>
  /\ ret.r.terms = <<PSub(f_a, f_b)>>
  /\ A.terms = <<f_a, f_b>>

(* The terms fromrec is to give for the fields, in order: for a retained
   text field one FactorTerm per distinct value, ascending; for a retained
   number field the Term of its name. *)
RECURSIVE FieldTerms(_, _, _, _)
FieldTerms(rec, fields, keep, dropped) ==
  IF fields = <<>> THEN <<>>
  ELSE LET n == Head(fields)
           retained == n \notin dropped /\ (keep = {} \/ n \in keep)
           levels == Unique(Column(rec, n)).vals
           sub == IF rec.kinds[n] \in {"S", "O", "U"}
                  THEN [i \in 1..Len(levels) |-> PAtom(FactorTerm(n, levels[i]))]
                  ELSE <<PAtom(Term(n))>>
       IN (IF retained THEN sub ELSE <<>>)
            \o FieldTerms(rec, Tail(fields), keep, dropped)

(* C14: fromrec(rec, keep, drop) is the sum, from the empty Formula and in
   the order of the fields, of one sub-formula per retained field (a Factor
   over the distinct values of a text column, one Term otherwise); a field
   is retained iff it is not in drop and keep is empty or holds it; a name
   in drop that is no field makes the call fail. *)
C14_FromrecSumOfFields ==
  ret.op = "fromrec" =>
    IF \E i \in 1..Len(ret.drop) : ret.drop[i] \notin SeqToSet(input.fields)
    THEN ret.raised # ""
    ELSE /\ ret.raised = ""
         /\ ret.r.cls = "Formula"
         /\ ret.r.terms = FieldTerms(input, input.fields, ret.keep, SeqToSet(ret.drop))

C14_Witness ==
  /\ ret.op = "fromrec" /\ ret.raised = ""
  /\ input.fields = <<"f", "g", "x">> /\ Len(input.rows) = 2
  /\ ret.keep = {"x", "f"} /\ ret.drop = <<"g">>
  /\ ret.r.terms = <<f_a, f_b, x>>

-----------------------------------------------------------------------------
(* The accesses that populate the coefficients of one instance.            *)

(* A.params *)
DoParams ==
  /\ A' = getcoefs(A)
  /\ ret' = [op |-> "params", r |-> getparams(<<getmean(A')>>)]
  /\ UNCHANGED <<B, input, param>>

CoefFormulas == {Formula(ts, "b") : ts \in SeqsUpTo({x, y, One}, MaxLenC)}

CoefInputs == {MkInput(AllColumns, 1), MkInput(AllColumns \ {ColName("x")}, 1)}

InitCoefs ==
  /\ A \in CoefFormulas
  /\ B = I
  /\ input \in CoefInputs
  /\ param = NoParam
  /\ ret = NoResult

NextCoefs ==
  \/ DoCoefs
  \/ DoMean
  \/ DoDesignExpr
  \/ DoParams
  \/ DoDesign

SpecCoefs == InitCoefs /\ [][NextCoefs]_vars

-----------------------------------------------------------------------------
(* Properties of the caches of a Formula instance.                         *)

(* The positions at which a term occurs for the first time. *)
FirstSeen(ts) == {i \in 1..Len(ts) : \A j \in 1..(i - 1) : ts[j] # ts[i]}

(* C20: the coefficient map is populated at the first access to coefs, mean,
   design_expr, params or design and no later access changes it: it has one
   entry per distinct term, and the index in a coefficient's name is the
   position (from 0) of the first occurrence of its term. *)
C20_CoefsMintedOnce ==
  [][/\ A'.has_coefs
     /\ A.has_coefs => A'.coefs = A.coefs
     /\ A'.coefs = {[term |-> A'.terms[i], coef |-> Beta(A'.char, i - 1)] :
                      i \in FirstSeen(A'.terms)}]_vars

C20_Witness ==
  /\ A.terms = <<x, x, y>>
  /\ ret.op = "design" /\ A.has_setup
  /\ A.coefs = {[term |-> x, coef |-> Beta("b", 0)], [term |-> y, coef |-> Beta("b", 2)]}

(* C19: the design setup of an instance runs once: a design() call on an
   instance that has been set up leaves its random offset, placeholder
   symbols, evaluator and param/term/preterm schemas as they are. *)
C19_SetupRunsOnce ==
  [][A.has_setup => (A'.has_setup /\ A'.setup = A.setup)]_vars

-----------------------------------------------------------------------------
(* contrast_from_cols_or_rows.                                             *)
(*                                                                         *)
(* A matrix is [r, c, a]: r rows, c columns and the entries a[i][j], all   *)
(* integers.  The design matrices of this part have columns that are zero  *)
(* or different unit vectors, so that their pseudo-inverse is their        *)
(* transpose and every product stays in the integers.                      *)

Mat(r, c, Entry(_, _)) ==
  [r |-> r, c |-> c, a |-> [i \in 1..r |-> [j \in 1..c |-> Entry(i, j)]]]

Transpose(M) == Mat(M.c, M.r, LAMBDA i, j : M.a[j][i])

RECURSIVE SumTo(_, _)
SumTo(k, f) == IF k = 0 THEN 0 ELSE f[k] + SumTo(k - 1, f)

(* np.dot of two matrices with X.c = Y.r *)
Dot(X, Y) ==
  Mat(X.r, Y.c, LAMBDA i, j : SumTo(X.c, [k \in 1..X.c |-> X.a[i][k] * Y.a[k][j]]))

(* The determinant of the square matrix of the rows and columns of M listed
   in rs and cs, by expansion along its first row. *)
RECURSIVE Det(_, _, _)
Det(M, rs, cs) ==
  IF rs = <<>> THEN 1
  ELSE SumTo(Len(cs),
             [k \in 1..Len(cs) |->
                (IF k % 2 = 1 THEN 1 ELSE 0 - 1) * M.a[rs[1]][cs[k]]
                  * Det(M, Tail(rs), SelectSeq(cs, LAMBDA q : q # cs[k]))])

(* The increasing sequences of k numbers of 1..n. *)
Choices(n, k) ==
  {q \in [1..k -> 1..n] : \A i, j \in 1..k : i < j => q[i] < q[j]}

(* The rank of M: the size of its largest square submatrix with a
   determinant other than 0. *)
Rank(M) ==
  LET sizes == {k \in 0..(IF M.r < M.c THEN M.r ELSE M.c) :
                  \E rs \in Choices(M.r, k), cs \in Choices(M.c, k) : Det(M, rs, cs) # 0}
  IN CHOOSE k \in sizes : \A q \in sizes : q <= k

(* scipy.linalg.pinv for the design matrices of this part: a matrix D with
   D . D^T . D = D has its transpose as its Moore-Penrose inverse. *)
pinv(D) == Transpose(D)

(* nipy.algorithms.utils.matrices.matrix_rank: the number of independent
   columns of M. *)
matrix_rank(M) == Rank(M)

(* nipy.algorithms.utils.matrices.full_rank(X, r): a matrix of r independent
   columns spanning the column space of X; here r columns of X itself. *)
full_rank(X, r) ==
  LET cs == CHOOSE q \in Choices(X.c, r) :
              Rank(Mat(X.r, r, LAMBDA i, j : X.a[i][q[j]])) = r
  IN Mat(X.r, r, LAMBDA i, j : X.a[i][cs[j]])

(* contrast_raw with the column count of L tested before its row count. *)
contrast_raw_cols_first(L, D) ==
  IF L.ndim = 1 /\ L.r # D.r
  THEN [raised |-> "IndexError", C |-> Mat(0, 0, LAMBDA i, j : 0)]
  ELSE IF L.ndim = 2 /\ L.r # D.r /\ L.c # D.c
  THEN [raised |-> "ValueError", C |-> Mat(0, 0, LAMBDA i, j : 0)]
  ELSE IF L.ndim = 2 /\ L.c = D.c
  THEN [raised |-> "", C |-> Transpose(Dot(pinv(D), Dot(D, Transpose(L))))]
  ELSE [raised |-> "", C |-> Transpose(Dot(pinv(D), L))]

(* The argument L: [ndim, r, c, a].  A one-dimensional L of length m has
   ndim = 1 and is kept as the column of its m entries. *)
contrast_raw(L, D) ==
  IF L.ndim = 1 /\ L.r # D.r
  THEN [raised |-> "IndexError", C |-> Mat(0, 0, LAMBDA i, j : 0)]
  ELSE IF L.ndim = 2 /\ L.r # D.r /\ L.c # D.c
  THEN [raised |-> "ValueError", C |-> Mat(0, 0, LAMBDA i, j : 0)]
  ELSE IF L.r = D.r
  THEN [raised |-> "", C |-> Transpose(Dot(pinv(D), L))]
  ELSE [raised |-> "", C |-> Transpose(Dot(pinv(D), Dot(D, Transpose(L))))]

(* np.squeeze: the shape without its dimensions of length 1 *)
squeeze(M) == SelectSeq(<<M.r, M.c>>, LAMBDA d : d # 1)

(* contrast_full_rank without the reduction to a full-rank basis. *)
contrast_full_rank_kept(C, D) == C

(* Lines 1201-1208 on the raw contrast C. *)
contrast_full_rank(C, D) ==
  LET Lp == Dot(D, Transpose(C))
      Lp_rank == matrix_rank(Lp)
  IN IF Lp_rank # Lp.c
     THEN Transpose(Dot(pinv(D), full_rank(Lp, Lp_rank)))
     ELSE C

contrast_from_cols_or_rows(L, D) ==
  LET raw == contrast_raw(L, D)
  IN IF raw.raised # ""
     THEN [raised |-> raw.raised, raw |-> raw.C, C |-> raw.C, shape |-> <<>>]
     ELSE LET C == contrast_full_rank(raw.C, D)
          IN [raised |-> "", raw |-> raw.C, C |-> C, shape |-> squeeze(C)]

(* The matrices of r rows and c columns with entries 0 and 1. *)
Mats(r, c) ==
  {Mat(r, c, LAMBDA i, j : f[i][j]) : f \in [1..r -> [1..c -> {0, 1}]]}

Dims == 1..MaxDim

(* The design matrices handed in: those whose pseudo-inverse is their
   transpose. *)
ContrastDs ==
  {D \in UNION {Mats(r, c) : r \in Dims, c \in Dims} :
     Dot(Dot(D, Transpose(D)), D) = D}

(* The arguments L handed in, two-dimensional and one-dimensional. *)
ContrastLs ==
  {[ndim |-> 2, r |-> M.r, c |-> M.c, a |-> M.a] :
     M \in UNION {Mats(r, c) : r \in Dims, c \in Dims}}
  \cup
  {[ndim |-> 1, r |-> M.r, c |-> 1, a |-> M.a] :
     M \in UNION {Mats(r, 1) : r \in Dims}}

(* The call contrast_from_cols_or_rows(L, D) on the pair held in input. *)
DoContrast ==
  /\ input.names = {"L", "D"}
  /\ \E r \in {contrast_from_cols_or_rows(input.L, input.D)} :
       ret' = [op |-> "contrast", L |-> input.L, D |-> input.D,
               raised |-> r.raised, raw |-> r.raw, C |-> r.C, shape |-> r.shape]
  /\ UNCHANGED <<A, B, input, param>>

InitContrast ==
  /\ A = I
  /\ B = I
  /\ input \in [names : {{"L", "D"}}, L : ContrastLs, D : ContrastDs]
  /\ param = NoParam
  /\ ret = NoResult

NextContrast == DoContrast

SpecContrast == InitContrast /\ [][NextContrast]_vars

-----------------------------------------------------------------------------
(* Properties of contrast_from_cols_or_rows.                               *)

(* C16: contrast_from_cols_or_rows(L, D) with a two-dimensional L and D of
   n rows and p columns raises ValueError exactly when L has not n rows and
   has not p columns; when L has n rows the raw contrast is
   (pinv(D) . L)^T, also when L has p columns as well; only otherwise is it
   (pinv(D) . (D . L^T))^T. *)
C16_ContrastShapeAndBranch ==
  (ret.op = "contrast" /\ ret.L.ndim = 2) =>
    LET L == ret.L
        D == ret.D
        n == D.r
        p == D.c
    IN /\ (ret.raised = "ValueError") <=> (L.r # n /\ L.c # p)
       /\ ret.raised \in {"", "ValueError"}
       /\ (ret.raised = "" /\ L.r = n) =>
            ret.raw = Transpose(Dot(Transpose(D), L))
       /\ (ret.raised = "" /\ L.r # n) =>
            ret.raw = Transpose(Dot(Transpose(D), Dot(D, Transpose(L))))

(* a square case: L has both n rows and p columns, and the two formulas
   differ on it *)
C16_Witness ==
  /\ ret.op = "contrast"
  /\ ret.L.ndim = 2
  /\ ret.raised = ""
  /\ ret.L.r = ret.D.r
  /\ ret.L.c = ret.D.c
  /\ ret.raw # Transpose(Dot(Transpose(ret.D), Dot(ret.D, Transpose(ret.L))))

IsZero(M) == \A i \in 1..M.r, j \in 1..M.c : M.a[i][j] = 0

(* C17: for every L of a shape compatible with D and not identically zero,
   contrast_from_cols_or_rows(L, D) returns C such that D . C^T has rank
   equal to the number of rows of C, and C has as many columns as D. *)
C17_ContrastFullRank ==
  (ret.op = "contrast" /\ ret.raised = "" /\ ~IsZero(ret.L)) =>
    /\ ret.C.c = ret.D.c
    /\ Rank(Dot(ret.D, Transpose(ret.C))) = ret.C.r

(* a case where the first D . C^T is rank-deficient and C is recomputed
   from a basis of at least one column *)
C17_Witness ==
  /\ ret.op = "contrast"
  /\ ret.raised = ""
  /\ ~IsZero(ret.L)
  /\ ret.C # ret.raw
  /\ ret.C.r >= 1

-----------------------------------------------------------------------------
(* Formula.design with contrasts.                                          *)
(*                                                                         *)
(* contrasts is the dict in its order: a sequence of [key, cf] with        *)
(* different keys.  A contrast matrix is kept as the call that computes it,*)
(* [L, n, p]: contrast_from_cols_or_rows of the float design L of the      *)
(* contrast Formula against the n x p matrix _D.                           *)

ContrastFormula(cf) ==
  IF is_formula(cf) THEN cf ELSE Formula(<<cf.terms[1]>>, "b")

(* The failure of contrast_from_cols_or_rows on the shapes alone: L.shape[0]
   of an array without axes and L.shape[1] of one with a single axis are
   IndexErrors. *)
contrast_shape_raised(Lshape, n, p) ==
  IF Len(Lshape) = 0 THEN "IndexError"
  ELSE IF Lshape[1] = n THEN ""
  ELSE IF Len(Lshape) = 1 THEN "IndexError"
  ELSE IF Lshape[2] # p THEN "ValueError"
  ELSE ""

(* One turn of the loop over contrasts.items(). *)
design_contrast(cf, obs, par, n, p, random_offset) ==
  With(design(ContrastFormula(cf), obs, par, TRUE, random_offset), LAMBDA d :
    IF d.raised # "" THEN [raised |-> d.raised, L |-> NoOut, n |-> n, p |-> p]
    ELSE [raised |-> contrast_shape_raised(d.out.shape, n, p),
          L |-> d.out, n |-> n, p |-> p])

(* The first failure of a sequence of results, "" when there is none. *)
RECURSIVE FirstRaised(_)
FirstRaised(rs) ==
  IF rs = <<>> THEN ""
  ELSE IF Head(rs).raised # "" THEN Head(rs).raised
  ELSE FirstRaised(Tail(rs))

ContrastsResult(self, raised, pair, out, cmatrices) ==
  [obj |-> self, raised |-> raised, pair |-> pair, out |-> out,
   cmatrices |-> cmatrices]

(* Lines 920-949 for a non-empty contrasts, on the float design D of self:
   D of one axis is taken as one column, D without axes makes
   np.linalg.pinv fail. *)
design_cmatrices(d, obs, par, contrasts, random_offset) ==
  LET shape == d.out.shape
      n == IF shape = <<>> THEN 0 ELSE shape[1]
      p == IF Len(shape) = 2 THEN shape[2] ELSE 1
  IN IF shape = <<>>
     THEN ContrastsResult(d.obj, "LinAlgError", FALSE, NoOut, <<>>)
     ELSE With([i \in 1..Len(contrasts) |->
                  design_contrast(contrasts[i].cf, obs, par, n, p, random_offset)],
               LAMBDA rs :
                 IF FirstRaised(rs) # ""
                 THEN ContrastsResult(d.obj, FirstRaised(rs), FALSE, NoOut, <<>>)
                 ELSE ContrastsResult(d.obj, "", TRUE, d.out,
                        [i \in 1..Len(contrasts) |->
                           [key |-> contrasts[i].key, L |-> rs[i].L,
                            n |-> n, p |-> p]]))

(* Formula.design(input, param, return_float, contrasts) *)
design_contrasts(self0, obs, par, return_float, contrasts, random_offset) ==
  IF contrasts = <<>>
  THEN With(design(self0, obs, par, return_float, random_offset), LAMBDA d :
         ContrastsResult(d.obj, d.raised, FALSE, d.out, <<>>))
  ELSE IF self0.terms = <<One>>
  THEN With(design(self0, obs, par, return_float, random_offset), LAMBDA d :
         ContrastsResult(d.obj, d.raised, FALSE, d.out, <<>>))
  ELSE With(design(self0, obs, par, TRUE, random_offset), LAMBDA d :
         IF d.raised # ""
         THEN ContrastsResult(d.obj, d.raised, FALSE, NoOut, <<>>)
         ELSE design_cmatrices(d, obs, par, contrasts, random_offset))

ContrastDicts ==
  {<<>>,
   <<[key |-> "c1", cf |-> Formula(<<x>>, "b")]>>,
   <<[key |-> "c1", cf |-> BareExpr(x)]>>,
   <<[key |-> "c2", cf |-> I], [key |-> "c1", cf |-> Formula(<<x, One>>, "b")]>>,
   <<[key |-> "c1", cf |-> Formula(<<f_a>>, "b")]>>,
   <<[key |-> "c1", cf |-> Formula(<<x, One>>, "b")]>>}

(* A.design(input, param, return_float, contrasts) *)
DoDesignContrasts ==
  \E return_float \in BOOLEAN, random_offset \in Offsets, contrasts \in ContrastDicts :
    \E r \in {design_contrasts(A, input, param, return_float, contrasts, random_offset)} :
       /\ A' = r.obj
       /\ ret' = [op |-> "design_contrasts", return_float |-> return_float,
                  contrasts |-> contrasts, raised |-> r.raised, pair |-> r.pair,
                  out |-> r.out, cmatrices |-> r.cmatrices]
       /\ UNCHANGED <<B, input, param>>

InitDesignContrasts ==
  /\ A \in DesignFormulas
  /\ B = I
  /\ input \in DesignInputs
  /\ param \in DesignParams
  /\ ret = NoResult

NextDesignContrasts == DoDesignContrasts

SpecDesignContrasts == InitDesignContrasts /\ [][NextDesignContrasts]_vars

-----------------------------------------------------------------------------
(* Properties of design with contrasts.                                    *)

(* C15: design with a non-empty contrasts, on any Formula, the intercept-only
   one included, returns a pair of a float design matrix and a mapping with
   exactly the keys of contrasts, each value being
   contrast_from_cols_or_rows of the float design of that contrast's own
   Formula on the same input and param. *)
C15_ContrastsReturnPair ==
  (ret.op = "design_contrasts" /\ ret.contrasts # <<>> /\ ret.raised = "") =>
    /\ ret.pair
    /\ ret.out.kind = "float"
    /\ Len(ret.cmatrices) = Len(ret.contrasts)
    /\ \A i \in 1..Len(ret.contrasts) :
         /\ ret.cmatrices[i].key = ret.contrasts[i].key
         /\ \E off \in Offsets :
              ret.cmatrices[i].L =
                design(ContrastFormula(ret.contrasts[i].cf), input, param, TRUE, off).out

-----------------------------------------------------------------------------
(* The kind of the errors.                                                 *)

(* No term of F contains a Term. *)
NoTermIn(F) ==
  \A i \in 1..Len(F.terms) :
    \A a \in PAtoms(F.terms[i]) : a.cls \notin {"Term", "FactorTerm"}

(* C18: each of these failures is a ValueError and no other kind of error:
   design on a Formula other than the intercept-only one none of whose terms
   contains a Term; Factor on numeric levels that are not all integral;
   Factor.stratify with a name holding a character that is no letter and no
   digit; Formula[name] and Factor.get_term without a matching term;
   contrast_from_cols_or_rows on an L matching neither dimension of D. *)
C18_FailuresAreValueErrors ==
  /\ (ret.op = "design" /\ A.terms # <<One>> /\ NoTermIn(A)) =>
       ret.raised = "ValueError"
  /\ (ret.op = "Factor" /\ ret.levels.kind = "f"
        /\ \E i \in 1..Len(ret.levels.vals) : ret.levels.vals[i] % 2 # 0) =>
       ret.raised = "ValueError"
  /\ (ret.op = "stratify"
        /\ ~(SeqToSet(Chars(ret.variable)) \subseteq LettersAndDigits)) =>
       ret.raised = "ValueError"
  /\ (ret.op \in {"getitem", "get_term"} /\ ret.raised # "") =>
       ret.raised = "ValueError"
  /\ (ret.op = "contrast" /\ ret.L.ndim = 2
        /\ ret.L.r # ret.D.r /\ ret.L.c # ret.D.c) =>
       ret.raised = "ValueError"

-----------------------------------------------------------------------------
(* Composed Formulas and their operands.  ret holds the composed object:
   same tells that the object returned is the left operand itself, and obj
   is then that operand as it is now.                                      *)

(* A + B, A - B or A * B *)
compose(how, self, other) ==
  IF how = "add" THEN Formula_add(self, other)
  ELSE IF how = "sub" THEN Formula_sub(self, other)
  ELSE Formula_mul(self, other)

ComposeHows == {"add", "sub", "mul"}

(* The left operands: plain Formulas and Factors. *)
ComposeLeft ==
  {Formula(ts, "b") : ts \in {<<x>>, <<f_a, f_b>>, <<x, One>>}}
  \cup {Factor("f", ls, "b") : ls \in {<<"a">>, <<"a", "b">>}}

(* The right operands, some of them equal to a left one. *)
ComposeRight ==
  {Formula(ts, "b") : ts \in {<<x>>, <<f_a>>, <<f_a, f_b>>}}
  \cup {Factor("f", ls, "b") : ls \in {<<"a", "b">>}}

HasResult == ret.op # "none" /\ ret.raised = ""

(* R = A + B, R = A - B or R = A * B *)
DoCompose ==
  \E how \in ComposeHows :
    /\ ret' = [op |-> "compose", how |-> how,
               raised |-> compose(how, A, B).raised,
               same |-> compose(how, A, B).same,
               obj |-> compose(how, A, B).obj]
    /\ UNCHANGED <<A, B, input, param>>

(* R.mean *)
DoResultMean ==
  /\ HasResult
  /\ A' = IF ret.same THEN getcoefs(A) ELSE A
  /\ ret' = [ret EXCEPT !.op = "result_mean",
                        !.obj = IF ret.same THEN getcoefs(A) ELSE getcoefs(@)]
  /\ UNCHANGED <<B, input, param>>

(* R.design(input) *)
DoResultDesign ==
  /\ HasResult
  /\ \E random_offset \in Offsets :
       \E r \in {design(IF ret.same THEN A ELSE ret.obj, input, param, FALSE,
                        random_offset)} :
         /\ A' = IF ret.same THEN r.obj ELSE A
         /\ ret' = [ret EXCEPT !.op = "result_design", !.obj = r.obj]
         /\ UNCHANGED <<B, input, param>>

(* A.mean *)
DoLeftMean ==
  /\ HasResult
  /\ A' = getcoefs(A)
  /\ ret' = [ret EXCEPT !.op = "operand_mean",
                        !.obj = IF ret.same THEN getcoefs(A) ELSE @]
  /\ UNCHANGED <<B, input, param>>

(* B.mean *)
DoRightMean ==
  /\ HasResult
  /\ B' = getcoefs(B)
  /\ ret' = [ret EXCEPT !.op = "operand_mean"]
  /\ UNCHANGED <<A, input, param>>

(* A.design(input) *)
DoLeftDesign ==
  /\ HasResult
  /\ \E random_offset \in Offsets :
       \E r \in {design(A, input, param, FALSE, random_offset)} :
         /\ A' = r.obj
         /\ ret' = [ret EXCEPT !.op = "operand_design",
                               !.obj = IF ret.same THEN r.obj ELSE @]
         /\ UNCHANGED <<B, input, param>>

(* B.design(input) *)
DoRightDesign ==
  /\ HasResult
  /\ \E random_offset \in Offsets :
       \E r \in {design(B, input, param, FALSE, random_offset)} :
         /\ B' = r.obj
         /\ ret' = [ret EXCEPT !.op = "operand_design"]
         /\ UNCHANGED <<A, input, param>>

InitCompose ==
  /\ A \in ComposeLeft
  /\ B \in ComposeRight
  /\ input = MkInput(AllColumns, MaxRows)
  /\ param = NoParam
  /\ ret = NoResult

NextCompose ==
  \/ DoCompose
  \/ DoResultMean
  \/ DoResultDesign
  \/ DoLeftMean
  \/ DoRightMean
  \/ DoLeftDesign
  \/ DoRightDesign

SpecCompose == InitCompose /\ [][NextCompose]_vars

(* C21: the result of A + B, A - B or A * B is a Formula other than A and
   B, whose coefficient map and design caches are its own: mean or design
   on the result leaves A and B as they were, and mean or design on A or B
   leaves the result as it was, for every pair of operands, a Factor
   multiplied by an equal Formula included. *)
C21_ComposedIsIndependent ==
  [][/\ ret'.op = "compose" =>
          /\ ~ret'.same
          /\ ret'.obj.cls = "Formula"
          /\ ~ret'.obj.has_coefs /\ ~ret'.obj.has_setup
     /\ ret'.op \in {"result_mean", "result_design"} => (A' = A /\ B' = B)
     /\ ret'.op \in {"operand_mean", "operand_design"} => ret'.obj = ret.obj
    ]_vars

(* What C21 says, for every composition but that of a Factor with an equal
   Formula by *. *)
C21_IndependentUnlessReturnedSelf ==
  [][/\ (ret'.op = "compose" /\ ~ret'.same) =>
          /\ ret'.obj.cls = "Formula"
          /\ ~ret'.obj.has_coefs /\ ~ret'.obj.has_setup
     /\ (ret'.op \in {"result_mean", "result_design"} /\ ~ret.same) =>
          (A' = A /\ B' = B)
     /\ (ret'.op \in {"operand_mean", "operand_design"} /\ ~ret.same) =>
          ret'.obj = ret.obj
     /\ ret'.op = "compose" =>
          (ret'.same <=> (ret'.how = "mul" /\ is_factor(A) /\ A.terms = B.terms))
    ]_vars

-----------------------------------------------------------------------------
(* Designs of nonlinear Formulas whose parameter symbols are named like the
   placeholders of _setup_design.                                          *)

(* sympy.Symbol('__t0__') and sympy.Symbol('__t1__') *)
t0 == PAtom(Symbol("__t", 0))

t1 == PAtom(Symbol("__t", 1))

RenamePool == {x, y, PMul(th, x), PMul(t0, x), PMul(t1, x)}

RenameFormulas ==
  {Formula(ts, "b") : ts \in SeqsUpTo(RenamePool, MaxLenA) \ {<<>>}}

(* A parameter record with a value for every parameter of the Formulas. *)
RenameParam ==
  MkParam({Str(Beta("b", i)) : i \in 0..MaxLenA}
          \cup {Str(Symbol("th", 0)), Str(Symbol("__t", 0)), Str(Symbol("__t", 1))})

InitRename ==
  /\ A \in RenameFormulas
  /\ B = I
  /\ input \in WideInputs
  /\ param = RenameParam
  /\ ret = NoResult

NextRename ==
  \/ DoDesign
  \/ DoDesignExpr

SpecRename == InitRename /\ [][NextRename]_vars

(* The parameter symbols of F that are no coefficients. *)
FreeParams(F) ==
  {a \in AtomsOfSeq(F.terms) : is_symbol_atom(a) /\ ~is_term_atom(a)}

(* C22: the renaming to placeholders never affects the result of design:
   for the same Formula, observations and parameter record, a run of design
   with any other random offset returns what this run returned, also for a
   nonlinear Formula with a parameter symbol named like a term
   placeholder. *)
C22_DesignIndependentOfOffset ==
  ret.op = "design" =>
    \A random_offset \in Offsets :
      /\ design(A, input, param, ret.return_float, random_offset).raised = ret.raised
      /\ design(A, input, param, ret.return_float, random_offset).out = ret.out

(* What C22 says, for the Formulas without a parameter symbol named like a
   term placeholder. *)
C22_IndependentWithoutPlaceholderNames ==
  (ret.op = "design" /\ \A a \in FreeParams(A) : a.name # "__t") =>
    \A random_offset \in Offsets :
      /\ design(A, input, param, ret.return_float, random_offset).raised = ret.raised
      /\ design(A, input, param, ret.return_float, random_offset).out = ret.out

-----------------------------------------------------------------------------
(* Formula.subs, on Formulas, Factors and RandomEffects.                   *)

(* sigma=None *)
NoSigma == [given |-> FALSE, shape |-> <<>>, diag |-> <<>>]

(* RandomEffects.__init__: sigma defaults to the diagonal matrix of one
   Dummy s2_<i> per term; a sigma of another shape than q x q is refused.
   The matrix is kept as its shape and its diagonal. *)
RandomEffects_init(seq, sigma, char) ==
  LET q == Len(seq)
      used == IF sigma.given THEN sigma
              ELSE [given |-> TRUE, shape |-> <<q, q>>,
                    diag |-> [i \in 1..q |-> Dummy("s2_", i - 1)]]
  IN IF used.shape # <<q, q>> THEN Failed("ValueError")
     ELSE Done([cls |-> "RandomEffects", terms |-> seq, counter |-> 0,
                char |-> char, has_coefs |-> FALSE, coefs |-> {},
                name |-> "", levels |-> <<>>,
                has_setup |-> FALSE, setup |-> NoCache, sigma |-> used])

(* The call self.__class__(terms) of subs: one positional argument.  Factor
   requires name and levels, so the call has no value for levels. *)
class_call(cls, terms) ==
  IF cls = "Factor" THEN Failed("TypeError")
  ELSE IF cls = "RandomEffects" THEN RandomEffects_init(terms, NoSigma, "e")
  ELSE Done(Formula(terms, "b"))

(* Formula.subs *)
subs(self, old, new) ==
  class_call(self.cls,
             [i \in 1..Len(self.terms) |-> PSubs(self.terms[i], old, new)])

SubsOlds == {Term("x"), FactorTerm("f", "a"), Symbol("th", 0)}

SubsNews == {Term("y"), Term("x")}

SubsPool == {x, y, f_a, PMul(th, x)}

SubsObjects ==
  {Formula(ts, c) : ts \in SeqsUpTo(SubsPool, MaxLenA), c \in {"b", "c"}}
  \cup {Factor("f", ls, "b") : ls \in LevelLists}
  \cup {RandomEffects_init(ts, NoSigma, "e").obj : ts \in SeqsUpTo(SubsPool, MaxLenA)}

(* A.subs(old, new) *)
DoSubs ==
  \E old \in SubsOlds, new \in SubsNews :
    /\ ret' = [op |-> "subs", old |-> old, new |-> new, before |-> A.terms,
               raised |-> subs(A, old, new).raised,
               obj |-> subs(A, old, new).obj]
    /\ UNCHANGED <<A, B, input, param>>

InitSubs ==
  /\ A \in SubsObjects
  /\ B = I
  /\ input = NoInput
  /\ param = NoParam
  /\ ret = NoResult

NextSubs ==
  \/ DoSubs
  \/ DoMean

SpecSubs == InitSubs /\ [][NextSubs]_vars

(* The atoms of expression e with old replaced by new. *)
AtomsAfter(e, old, new) ==
  {IF a = old THEN new ELSE a : a \in PAtoms(e)}

(* C23: subs(old, new) on a Formula, a Factor or a RandomEffects returns a
   new instance of the same class whose terms are the original terms with
   old replaced by new, position by position, and the original instance
   keeps its terms. *)
C23_SubsSameClass ==
  ret.op = "subs" =>
    /\ ret.raised = ""
    /\ ret.obj.cls = A.cls
    /\ Len(ret.obj.terms) = Len(A.terms)
    /\ \A i \in 1..Len(A.terms) :
         /\ PAtoms(ret.obj.terms[i]) = AtomsAfter(A.terms[i], ret.old, ret.new)
         /\ (ret.old \notin PAtoms(A.terms[i]) => ret.obj.terms[i] = A.terms[i])
    /\ A.terms = ret.before

(* What C23 says, for every class but Factor. *)
C23_SubsSameClassUnlessFactor ==
  (ret.op = "subs" /\ A.cls # "Factor") =>
    /\ ret.raised = ""
    /\ ret.obj.cls = A.cls
    /\ Len(ret.obj.terms) = Len(A.terms)
    /\ \A i \in 1..Len(A.terms) :
         /\ PAtoms(ret.obj.terms[i]) = AtomsAfter(A.terms[i], ret.old, ret.new)
         /\ (ret.old \notin PAtoms(A.terms[i]) => ret.obj.terms[i] = A.terms[i])
    /\ A.terms = ret.before

-----------------------------------------------------------------------------
(* Products in both orders.                                                *)

(* A * B == B * A *)
DoMulEq ==
  /\ ret' = [op |-> "mul_eq", ab |-> Formula_mul(A, B), ba |-> Formula_mul(B, A),
             r |-> Formula_eq(Formula_mul(A, B).obj, Formula_mul(B, A).obj)]
  /\ UNCHANGED <<A, B, input, param>>

InitCommute ==
  /\ A \in Formulas(TermPool, MaxLenA)
  /\ B \in Formulas(OtherPool, MaxLenB)
  /\ input = NoInput
  /\ param = NoParam
  /\ ret = NoResult

NextCommute ==
  \/ DoMulEq
  \/ DoMul
  \/ DoEq

SpecCommute == InitCommute /\ [][NextCommute]_vars

(* C24: multiplication is commutative: A * B == B * A for every pair of
   Formulas, also when one is a Factor and the other a plain Formula with
   the same terms. *)
C24_MulCommutes ==
  ret.op = "mul_eq" => ret.r

(* What C24 says, for the products that are computed term by term in both
   orders. *)
C24_CommutesUnlessReturnedSelf ==
  (ret.op = "mul_eq" /\ ~ret.ab.same /\ ~ret.ba.same) =>
    /\ ret.r
    /\ ret.ab.obj.terms = ret.ba.obj.terms

-----------------------------------------------------------------------------
(* The matrix handed to contrast_from_cols_or_rows.                        *)

(* C25: when design is called with a non-empty contrasts on n observations
   and a Formula with p design expressions, the design matrix handed to
   contrast_from_cols_or_rows is n x p (and its pseudo-inverse p x n), for
   every n >= 1 and p >= 1, a single observation with p > 1 included. *)
C25_HandedDesignIsNByP ==
  (ret.op = "design_contrasts" /\ ret.pair) =>
    \A i \in 1..Len(ret.cmatrices) :
      /\ ret.cmatrices[i].n = Len(input.rows)
      /\ ret.cmatrices[i].p = Len(A.setup.f_body)

(* What C25 says, for two observations or more. *)
C25_HandedDesignIsNByPForRows ==
  (ret.op = "design_contrasts" /\ ret.pair /\ Len(input.rows) > 1) =>
    \A i \in 1..Len(ret.cmatrices) :
      /\ ret.cmatrices[i].n = Len(input.rows)
      /\ ret.cmatrices[i].p = Len(A.setup.f_body)

(* A design of two observations and two columns, with its contrasts. *)
C25_ReachedTwoByTwo ==
  /\ ret.op = "design_contrasts" /\ ret.pair
  /\ Len(input.rows) > 1 /\ Len(A.setup.f_body) > 1

====
